---- MODULE Spec2Model ----
(***************************************************************************)
(* ForsaLearn authentication layer: the credential store (models/User),    *)
(* the auth routes (routes/auth.js) and the auth middleware (protect,      *)
(* authorize, checkFormateurApproval, verifyEmailToken, rate limiters).    *)
(*                                                                         *)
(* Time is counted in minutes.  A document keeps the fields the handlers   *)
(* read or write; an ObjectId is the document's position in the store.     *)
(***************************************************************************)
EXTENDS Integers, Sequences, FiniteSets, Bags, TLC

\* ------------------------------------------------------------------ bounds
MaxUsers == 2
MaxInflight == 2
MaxTicks == 1
MaxHits == 6
MaxEvTokens == 2

\* ------------------------------------------------------- program constants
ExpiresIn == 10080
loginWindowMin == 15
loginMax == 5
NameMin == 2
NameMax == 50
PhoneMin == 10
PhoneMax == 15
PasswordMin == 6

Undef == -1

Roles == {"admin", "formateur", "visiteur"}
Addrs == {"ip1", "ip2"}

\* ------------------------------------------------------------ input values
\* A name is its leading/trailing blanks and its core; trim() drops the blanks.
Name(pad, core) == [pad |-> pad, core |-> core]
Trim(n) == [pad |-> 0, core |-> n.core]
StrLen(n) == n.pad + n.core

\* A phone number is whether it is all digits, and its length.
Phone(digits, len) == [digits |-> digits, len |-> len]

\* Passwords are concrete strings; PwLen is their length.
PwLen(p) == CASE p = "" -> 0 [] p = "12345" -> 5 [] p = "secret1" -> 7 [] OTHER -> 7

\* express-validator isEmail(): the syntax test of the route.
isEmail(e) == e \in {"a@x.com", "A@x.com", "b@x.com", "a+b@x.com"}

\* express-validator normalizeEmail(): lowercases the address.
normalizeEmail(e) == IF e = "A@x.com" THEN "a@x.com" ELSE e

\* The schema's lowercase/trim setter on email.
SchemaLower(e) == IF e = "A@x.com" THEN "a@x.com" ELSE e

\* The schema's match regex /^\w+([.-]?\w+)*@\w+([.-]?\w+)*(\.\w{2,3})+$/ :
\* "+" is no word character, so a+b@x.com fails it.
SchemaEmailMatch(e) == e \in {"a@x.com", "A@x.com", "b@x.com"}

PhoneMatch(ph) == ph.digits /\ ph.len >= PhoneMin /\ ph.len <= PhoneMax

\* bcrypt: a value is a plaintext under h layers of hashing.
Plain(p) == [h |-> 0, of |-> p]
Hash(v) == [h |-> v.h + 1, of |-> v.of]
bcryptCompare(candidate, stored) == stored = Hash(Plain(candidate))

\* ------------------------------------------------------------------ tokens
NoToken == [form |-> "none", id |-> 0, role |-> "", exp |-> 0, nbf |-> 0, sig |-> ""]
Malformed == [form |-> "malformed", id |-> 0, role |-> "", exp |-> 0, nbf |-> 0, sig |-> ""]

\* jwt.sign({id, role}, JWT_SECRET, {expiresIn: '7d'}) at time t.
jwtSign(id, role, t) ==
  [form |-> "jwt", id |-> id, role |-> role, exp |-> t + ExpiresIn, nbf |-> 0, sig |-> "secret"]

\* jwt.verify(token, JWT_SECRET) at time t: the name of the error thrown, or "ok".
jwtVerify(tok, t) ==
  IF tok.form # "jwt" THEN "JsonWebTokenError"
  ELSE IF tok.sig # "secret" THEN "JsonWebTokenError"
  ELSE IF tok.nbf > t THEN "NotBeforeError"
  ELSE IF t >= tok.exp THEN "TokenExpiredError"
  ELSE "ok"

\* --------------------------------------------------------------- variables
VARIABLES
  users,      \* the credential store: sequence of documents, _id = index
  now,        \* Date.now(), minutes
  ticks,      \* clock advances so far
  storeUp,    \* whether the store answers queries
  regs,       \* registrations between their findOne and their save
  vers,       \* email verifications between their findOne and their save
  last,       \* the response just sent (NoResp after a step that sends none)
  held,       \* the token the client kept, and the route that issued it
  reg201,     \* per email: 201 responses sent by the register routes
  ver200,     \* per verification token: 200 responses sent by verifyEmailToken
  nextEvTok,  \* verification tokens handed out so far
  hits        \* per address: login requests received in the current window

vars == <<users, now, ticks, storeUp, regs, vers, last, held, reg201, ver200, nextEvTok, hits>>

StoredEmails == {"a@x.com", "b@x.com", "a+b@x.com"}
Ids == 1..Len(users)

\* A register request body; skills and skillsNeeded are the array's length,
\* or -1 when the field is no array.
Payload(fn, ln, em, ph, pw, sk, sn) ==
  [firstName |-> fn, lastName |-> ln, email |-> em, phoneNumber |-> ph,
   password |-> pw, skills |-> sk, skillsNeeded |-> sn]

NoPayload == Payload(Name(0, 0), Name(0, 0), "", Phone(FALSE, 0), "", -1, -1)

\* ---------------------------------------------------------------- responses
NoResp ==
  [route |-> "none", status |-> 0, msg |-> "", next |-> FALSE, token |-> NoToken,
   role |-> "", id |-> 0, hasPassword |-> FALSE, isPending |-> FALSE, errors |-> {},
   reqEmail |-> "", reqPassword |-> "", reqToken |-> NoToken, reqAddr |-> "",
   gate |-> "", allowed |-> {}, reqVerify |-> 0, reqBody |-> NoPayload, named |-> ""]

Resp(route, status, msg) == [NoResp EXCEPT !.route = route, !.status = status, !.msg = msg]

\* ------------------------------------------------------------------- store
\* new Model({...}) with the schema defaults.
NewDoc(email, role, password) ==
  [email |-> SchemaLower(email), role |-> role, password |-> Plain(password),
   isActive |-> TRUE, isApproved |-> FALSE, isEmailVerified |-> FALSE,
   emailVerificationToken |-> 0, emailVerificationExpires |-> Undef,
   lastLogin |-> Undef]

\* A pre-save hook that hashes on every save.
preSave_Always(doc, modified) == [doc EXCEPT !.password = Hash(@)]

\* userSchema.pre('save'): hash only when the password path is modified.
preSave(doc, modified) ==
  IF "password" \notin modified THEN doc
  ELSE [doc EXCEPT !.password = Hash(@)]

\* The schema without unique: true on email.
EmailTaken_NoIndex(email) == FALSE

\* The unique index on email: an insert of an email already stored fails.
EmailTaken(email) == \E i \in Ids : users[i].email = email

\* User.findOne({email}) : the _id found, or 0.
FindByEmail(email, roles) ==
  IF \E i \in Ids : users[i].email = email /\ users[i].role \in roles
  THEN CHOOSE i \in Ids : users[i].email = email /\ users[i].role \in roles
  ELSE 0

\* The schema validators run by save() on a new document.
SchemaErrors(p) ==
  {f \in {"firstName", "lastName", "email", "phoneNumber", "password"} :
     \/ f = "firstName" /\ ~(Trim(p.firstName).core >= NameMin /\ Trim(p.firstName).core <= NameMax)
     \/ f = "lastName" /\ ~(Trim(p.lastName).core >= NameMin /\ Trim(p.lastName).core <= NameMax)
     \/ f = "email" /\ ~SchemaEmailMatch(SchemaLower(p.email))
     \/ f = "phoneNumber" /\ ~PhoneMatch(p.phoneNumber)
     \/ f = "password" /\ PwLen(p.password) < PasswordMin}

\* The express-validator chains of the register routes.
RouteErrors(role, p) ==
  {f \in {"firstName", "lastName", "email", "phoneNumber", "password", "skills", "skillsNeeded"} :
     \/ f = "firstName" /\ StrLen(Trim(p.firstName)) < NameMin
     \/ f = "lastName" /\ StrLen(Trim(p.lastName)) < NameMin
     \/ f = "email" /\ ~isEmail(p.email)
     \/ f = "phoneNumber" /\ ~PhoneMatch(p.phoneNumber)
     \/ f = "password" /\ PwLen(p.password) < PasswordMin
     \/ f = "skills" /\ role = "formateur" /\ p.skills < 1
     \/ f = "skillsNeeded" /\ role = "visiteur" /\ p.skillsNeeded < 0}

RegisterRoute(role) ==
  CASE role = "admin" -> "/register/admin"
    [] role = "formateur" -> "/register/formateur"
    [] OTHER -> "/register/visiteur"

\* ---------------------------------------------------------------- payloads
\* Payloads around every constraint of the routes and of the schema.
AllPayloads ==
  {Payload(fn, ln, em, ph, pw, sk[1], sk[2]) :
     fn \in {Name(0, 1), Name(1, 1), Name(0, 3), Name(0, NameMax + 1)},
     ln \in {Name(0, 5), Name(0, NameMax + 1)},
     em \in {"a@x.com", "a+b@x.com", "not-an-email"},
     ph \in {Phone(TRUE, PhoneMin), Phone(TRUE, PhoneMin - 1)},
     pw \in {"12345", "secret1"},
     sk \in {<<-1, -1>>, <<0, 0>>, <<1, 0>>}}

\* Well-formed payloads of the main specification.
CorePayloads ==
  {Payload(Name(0, 3), Name(0, 5), em, Phone(TRUE, 10), "secret1", 1, 0) :
     em \in {"a@x.com", "A@x.com", "b@x.com"}}

\* Requests in flight are kept as bags: two identical requests are two requests.
Inflight == BagCardinality(regs) + BagCardinality(vers)

Init ==
  /\ users = << >>
  /\ now = 0
  /\ ticks = 0
  /\ storeUp = TRUE
  /\ regs = EmptyBag
  /\ vers = EmptyBag
  /\ last = NoResp
  /\ held = [tok |-> NoToken, via |-> ""]
  /\ reg201 = [e \in StoredEmails |-> 0]
  /\ ver200 = [t \in 1..MaxEvTokens |-> 0]
  /\ nextEvTok = 0
  /\ hits = [a \in Addrs |-> [start |-> 0, n |-> 0]]

\* ------------------------------------------------------------ registration
\* POST /register/<role>, up to the await of User.findOne: validation,
\* destructuring, duplicate pre-check.  At most limit requests are in flight.
RegisterFind(limit, role, p) ==
  /\ Inflight < limit
  /\ Len(users) < MaxUsers
  /\ LET errs == RouteErrors(role, p)
         email == normalizeEmail(p.email)
         body == [p EXCEPT !.email = email]
     IN IF errs # {}
        THEN /\ last' = [Resp(RegisterRoute(role), 400, "ValidationError")
                           EXCEPT !.errors = errs, !.reqEmail = email, !.reqBody = p]
             /\ regs' = regs
        ELSE IF ~storeUp
        THEN /\ last' = [Resp(RegisterRoute(role), 500, "Server error during registration")
                           EXCEPT !.reqEmail = email, !.reqBody = p]
             /\ regs' = regs
        ELSE IF FindByEmail(email, Roles) # 0
        THEN /\ last' = [Resp(RegisterRoute(role), 400, "Email already registered")
                           EXCEPT !.reqEmail = email, !.reqBody = p]
             /\ regs' = regs
        ELSE /\ regs' = regs (+) SetToBag({[role |-> role, body |-> body, raw |-> p]})
             /\ last' = NoResp
  /\ UNCHANGED <<users, now, ticks, storeUp, vers, held, reg201, ver200, nextEvTok, hits>>

\* save() of a new document: schema validation, pre-save hook, insert under
\* the unique index.  TRUE when the document can be stored.
SaveAccepts(body) ==
  /\ storeUp
  /\ SchemaErrors(body) = {}
  /\ ~EmailTaken(SchemaLower(body.email))

\* POST /register/<role>, from the await of save() on: persist, sign, respond.
RegisterSave(r, keep) ==
  /\ BagIn(r, regs)
  /\ LET role == r.role
         body == r.body
         doc == preSave(NewDoc(body.email, role, body.password), {"password"})
         id == Len(users) + 1
         token == jwtSign(id, role, now)
     IN IF ~SaveAccepts(body)
        THEN /\ last' = [Resp(RegisterRoute(role), 500, "Server error during registration")
                           EXCEPT !.reqEmail = body.email, !.reqBody = r.raw]
             /\ UNCHANGED <<users, held, reg201>>
        ELSE /\ users' = Append(users, doc)
             /\ last' = [Resp(RegisterRoute(role), 201, "registered")
                           EXCEPT !.token = token, !.role = doc.role, !.id = id,
                                  !.reqEmail = body.email, !.reqBody = r.raw]
             /\ held' = IF keep THEN [tok |-> token, via |-> RegisterRoute(role)] ELSE held
             /\ reg201' = [reg201 EXCEPT ![doc.email] = @ + 1]
  /\ regs' = regs (-) SetToBag({r})
  /\ UNCHANGED <<now, ticks, storeUp, vers, ver200, nextEvTok, hits>>

\* ------------------------------------------------------------------- login
\* The express-validator chains of the login routes.
LoginErrors(email, password) ==
  {f \in {"email", "password"} :
     \/ f = "email" /\ ~isEmail(email)
     \/ f = "password" /\ PwLen(password) = 0}

\* userSchema.methods.comparePassword
comparePassword(doc, candidate) == bcryptCompare(candidate, doc.password)

\* The shared endpoint with no role filter in its query.
LoginRoles_Any == Roles

\* The role filter of the shared endpoint's query.
LoginRoles == {"formateur", "visiteur"}

\* The shared endpoint letting unapproved formateurs in.
isPendingFormateur_Never(doc) == FALSE

\* The approval check of the shared endpoint.
isPendingFormateur(doc) == doc.role = "formateur" /\ ~doc.isApproved

\* A login that tells a wrong password from an unknown email.
WrongPasswordMsg_Telling(route) == "Incorrect password"

\* The message of the 401 sent when comparePassword fails.
WrongPasswordMsg(route) ==
  IF route = "/login" THEN "Invalid email or password" ELSE "Invalid admin credentials"

\* POST /login: the handler's response and the token it issues.
LoginResponse(rawEmail, password) ==
  LET email == normalizeEmail(rawEmail)
      i == FindByEmail(email, LoginRoles)
      base == [Resp("/login", 0, "") EXCEPT !.reqEmail = email, !.reqPassword = password]
  IN IF LoginErrors(rawEmail, password) # {}
     THEN [base EXCEPT !.status = 400, !.msg = "ValidationError",
                       !.errors = LoginErrors(rawEmail, password)]
     ELSE IF ~storeUp
     THEN [base EXCEPT !.status = 500, !.msg = "Server error during login"]
     ELSE IF i = 0
     THEN [base EXCEPT !.status = 401, !.msg = "Invalid email or password"]
     ELSE IF ~users[i].isActive
     THEN [base EXCEPT !.status = 403, !.msg = "Account has been deactivated"]
     ELSE IF ~comparePassword(users[i], password)
     THEN [base EXCEPT !.status = 401, !.msg = WrongPasswordMsg("/login")]
     ELSE IF isPendingFormateur(users[i])
     THEN [base EXCEPT !.status = 403, !.msg = "pending admin approval", !.isPending = TRUE]
     ELSE [base EXCEPT !.status = 200, !.msg = "Login successful",
                       !.token = jwtSign(i, users[i].role, now),
                       !.role = users[i].role, !.id = i]

\* express-rate-limit with max: 5: the request count above which it answers 429.
loginLimiter(n) == IF n > loginMax THEN 429 ELSE 0

\* The count an observer of one address keeps over a window of 15 minutes.
Counted(addr) ==
  IF now >= hits[addr].start + loginWindowMin
  THEN [hits EXCEPT ![addr] = [start |-> now, n |-> 1]]
  ELSE [hits EXCEPT ![addr].n = IF @ < MaxHits THEN @ + 1 ELSE @]

\* POST /login as mounted: validators, then the handler (no limiter).
Login(addr, rawEmail, password, keep) ==
  /\ last' = [LoginResponse(rawEmail, password) EXCEPT !.reqAddr = addr]
  /\ held' = IF keep /\ last'.status = 200
             THEN [tok |-> last'.token, via |-> "/login"] ELSE held
  /\ UNCHANGED <<users, now, ticks, storeUp, regs, vers, reg201, ver200, nextEvTok>>

\* POST /login/admin: the handler's response and the token it issues.
LoginAdminResponse(rawEmail, password) ==
  LET email == normalizeEmail(rawEmail)
      i == FindByEmail(email, {"admin"})
      base == [Resp("/login/admin", 0, "") EXCEPT !.reqEmail = email, !.reqPassword = password]
  IN IF LoginErrors(rawEmail, password) # {}
     THEN [base EXCEPT !.status = 400, !.msg = "ValidationError",
                       !.errors = LoginErrors(rawEmail, password)]
     ELSE IF ~storeUp
     THEN [base EXCEPT !.status = 500, !.msg = "Server error during admin login"]
     ELSE IF i = 0
     THEN [base EXCEPT !.status = 401, !.msg = "Invalid admin credentials"]
     ELSE IF ~users[i].isActive
     THEN [base EXCEPT !.status = 403, !.msg = "Admin account has been deactivated"]
     ELSE IF ~comparePassword(users[i], password)
     THEN [base EXCEPT !.status = 401, !.msg = WrongPasswordMsg("/login/admin")]
     ELSE [base EXCEPT !.status = 200, !.msg = "Admin login successful",
                       !.token = jwtSign(i, users[i].role, now),
                       !.role = users[i].role, !.id = i]

\* POST /login/admin as mounted; a success writes lastLogin and saves.
LoginAdmin(addr, rawEmail, password, keep) ==
  /\ last' = [LoginAdminResponse(rawEmail, password) EXCEPT !.reqAddr = addr]
  /\ users' = IF last'.status = 200
              THEN [users EXCEPT ![last'.id] = preSave([@ EXCEPT !.lastLogin = now], {"lastLogin"})]
              ELSE users
  /\ held' = IF keep /\ last'.status = 200
             THEN [tok |-> last'.token, via |-> "/login/admin"] ELSE held
  /\ UNCHANGED <<now, ticks, storeUp, regs, vers, reg201, ver200, nextEvTok>>

\* ------------------------------------------------------------- middleware
Header(scheme, tok) == [scheme |-> scheme, tok |-> tok]

\* What split(' ')[1] yields for the header: the token, or NoToken.
BearerToken(h) == IF h.scheme = "Bearer" THEN h.tok ELSE NoToken

\* A catch block that swallows the error and continues.
protectCatch_Continue(name, base) == [base EXCEPT !.next = TRUE]

\* protect's catch block: the response for an error thrown by jwt.verify.
protectCatch(name, base) ==
  IF name = "JsonWebTokenError"
  THEN [base EXCEPT !.status = 401, !.msg = "Invalid token"]
  ELSE IF name = "TokenExpiredError"
  THEN [base EXCEPT !.status = 401, !.msg = "Token expired"]
  ELSE [base EXCEPT !.status = 500, !.msg = "Server error during authentication"]

\* protect with no test of the active flag.
isDeactivated_Never(doc) == FALSE

\* protect's test of the active flag.
isDeactivated(doc) == ~doc.isActive

\* protect: the response it sends, or next = TRUE with req.user attached
\* (id, role; the password is excluded by select('-password')).
protect(h) ==
  LET tok == BearerToken(h)
      v == jwtVerify(tok, now)
      base == [Resp("guard", 0, "") EXCEPT !.reqToken = tok, !.gate = "protect"]
  IN IF tok.form = "none"
     THEN [base EXCEPT !.status = 401, !.msg = "Not authorized"]
     ELSE IF v # "ok"
     THEN protectCatch(v, base)
     ELSE IF ~storeUp
     THEN [base EXCEPT !.status = 500, !.msg = "Server error during authentication"]
     ELSE IF tok.id \notin Ids
     THEN [base EXCEPT !.status = 401, !.msg = "User no longer exists"]
     ELSE IF isDeactivated(users[tok.id])
     THEN [base EXCEPT !.status = 403, !.msg = "account deactivated"]
     ELSE [base EXCEPT !.next = TRUE, !.id = tok.id, !.role = users[tok.id].role,
                       !.hasPassword = FALSE]

\* A role gate that lets every role through.
authorize_PassAll(allowed, r) == [r EXCEPT !.gate = "authorize", !.allowed = allowed]

\* authorize(...roles): runs on a request protect has passed; its 403 message
\* names req.user.role.
authorize(allowed, r) ==
  IF r.role \notin allowed
  THEN [r EXCEPT !.status = 403, !.msg = "Role is not authorized", !.next = FALSE,
                 !.gate = "authorize", !.allowed = allowed, !.named = r.role]
  ELSE [r EXCEPT !.gate = "authorize", !.allowed = allowed]

\* An approval gate that lets every principal through.
checkFormateurApproval_PassAll(r) == [r EXCEPT !.gate = "checkFormateurApproval"]

\* checkFormateurApproval: runs on a request protect has passed.
checkFormateurApproval(r) ==
  IF r.role # "formateur" THEN [r EXCEPT !.gate = "checkFormateurApproval"]
  ELSE IF ~users[r.id].isApproved
  THEN [r EXCEPT !.status = 403, !.msg = "not yet approved", !.next = FALSE,
                 !.gate = "checkFormateurApproval"]
  ELSE [r EXCEPT !.gate = "checkFormateurApproval"]

Gates == {"protect", "authorize", "checkFormateurApproval"}

\* A route mounted behind protect and one further gate: each gate runs only
\* when the one before it called next.
RunGates(gate, allowed, h) ==
  LET r == protect(h)
  IN IF ~r.next \/ gate = "protect" THEN r
     ELSE IF gate = "authorize" THEN authorize(allowed, r)
     ELSE checkFormateurApproval(r)

\* The tokens a client can present: the one it holds, that one with a forged
\* signature, a malformed string, and tokens signed with JWT_SECRET elsewhere
\* (not yet valid, or naming an _id the store does not hold).
Presentable ==
  {held.tok, Malformed}
    \cup (IF held.tok.form = "jwt"
          THEN {[held.tok EXCEPT !.sig = "forged"], [held.tok EXCEPT !.nbf = now + 1],
                [held.tok EXCEPT !.id = MaxUsers + 2]}
          ELSE {})

Guarded(gate, allowed, h) ==
  /\ last' = RunGates(gate, allowed, h)
  /\ UNCHANGED <<users, now, ticks, storeUp, regs, vers, held, reg201, ver200, nextEvTok, hits>>

\* GET /me is mounted with no middleware before its handler, so nothing has
\* set req.user when the handler reads req.user.id.
MeReqUser(h) == 0

\* GET /me handler: req.user.id on an undefined req.user throws into the catch.
MeResponse(h) ==
  LET u == MeReqUser(h)
      base == [Resp("/me", 0, "") EXCEPT !.reqToken = BearerToken(h)]
  IN IF u = 0 \/ ~storeUp
     THEN [base EXCEPT !.status = 500, !.msg = "Server error"]
     ELSE IF u \notin Ids
     THEN [base EXCEPT !.status = 404, !.msg = "User not found"]
     ELSE [base EXCEPT !.status = 200, !.id = u, !.role = users[u].role, !.hasPassword = FALSE]

Me(h) ==
  /\ last' = MeResponse(h)
  /\ UNCHANGED <<users, now, ticks, storeUp, regs, vers, held, reg201, ver200, nextEvTok, hits>>

\* ------------------------------------------------------ email verification
\* User.findOne({emailVerificationToken: token,
\*               emailVerificationExpires: {$gt: Date.now()}}): the _id, or 0.
FindByVerification(token) ==
  IF \E i \in Ids : users[i].emailVerificationToken = token
                    /\ users[i].emailVerificationExpires > now
  THEN CHOOSE i \in Ids : users[i].emailVerificationToken = token
                          /\ users[i].emailVerificationExpires > now
  ELSE 0

\* A handler that sets the flag and leaves the token and its expiry stored.
MarkVerified_KeepToken(doc) == [doc EXCEPT !.isEmailVerified = TRUE]

\* The three assignments verifyEmailToken makes before save().
MarkVerified(doc) ==
  [doc EXCEPT !.isEmailVerified = TRUE,
              !.emailVerificationToken = 0,
              !.emailVerificationExpires = Undef]

\* verifyEmailToken up to the await of User.findOne.
VerifyFind(limit, token) ==
  /\ Inflight < limit
  /\ LET i == FindByVerification(token)
         base == [Resp("/verify-email", 0, "") EXCEPT !.reqVerify = token]
     IN IF ~storeUp
        THEN /\ last' = [base EXCEPT !.status = 500, !.msg = "Error verifying email"]
             /\ vers' = vers
        ELSE IF i = 0
        THEN /\ last' = [base EXCEPT !.status = 400, !.msg = "invalid or has expired"]
             /\ vers' = vers
        ELSE /\ last' = NoResp
             /\ vers' = vers (+) SetToBag({[id |-> i, token |-> token]})
  /\ UNCHANGED <<users, now, ticks, storeUp, regs, held, reg201, ver200, nextEvTok, hits>>

\* verifyEmailToken from the assignments on: save() writes the three modified
\* paths of the document found, then 200.
VerifySave(v) ==
  /\ BagIn(v, vers)
  /\ vers' = vers (-) SetToBag({v})
  /\ IF ~storeUp
     THEN /\ last' = [Resp("/verify-email", 500, "Error verifying email") EXCEPT !.reqVerify = v.token]
          /\ UNCHANGED <<users, ver200>>
     ELSE /\ users' = [users EXCEPT ![v.id] =
                         preSave(MarkVerified(@),
                                 {"isEmailVerified", "emailVerificationToken", "emailVerificationExpires"})]
          /\ last' = [Resp("/verify-email", 200, "Email verified successfully")
                        EXCEPT !.reqVerify = v.token, !.id = v.id]
          /\ ver200' = [ver200 EXCEPT ![v.token] = @ + 1]
  /\ UNCHANGED <<now, ticks, storeUp, regs, held, reg201, nextEvTok, hits>>

\* A verification window is opened for a principal: a fresh token and an
\* expiry in the future are stored (the issuing flow is outside the routes).
IssueVerification(i, d) ==
  /\ i \in Ids
  /\ nextEvTok < MaxEvTokens
  /\ nextEvTok' = nextEvTok + 1
  /\ users' = [users EXCEPT ![i].emailVerificationToken = nextEvTok + 1,
                            ![i].emailVerificationExpires = now + d]
  /\ last' = NoResp
  /\ UNCHANGED <<now, ticks, storeUp, regs, vers, held, reg201, ver200, hits>>

\* ------------------------------------------------------------- environment
\* The clock advances.
Tick(d) ==
  /\ ticks < MaxTicks
  /\ now' = now + d
  /\ ticks' = ticks + 1
  /\ last' = NoResp
  /\ UNCHANGED <<users, storeUp, regs, vers, held, reg201, ver200, nextEvTok, hits>>

\* The store stops answering: every query from now on throws.
StoreDown ==
  /\ storeUp
  /\ storeUp' = FALSE
  /\ last' = NoResp
  /\ UNCHANGED <<users, now, ticks, regs, vers, held, reg201, ver200, nextEvTok, hits>>

\* The store answers again.
StoreBack ==
  /\ ~storeUp
  /\ storeUp' = TRUE
  /\ last' = NoResp
  /\ UNCHANGED <<users, now, ticks, regs, vers, held, reg201, ver200, nextEvTok, hits>>

\* An administrator (or any writer of the store) sets a principal's isActive.
SetActive(i, b) ==
  /\ i \in Ids
  /\ users[i].isActive # b
  /\ users' = [users EXCEPT ![i].isActive = b]
  /\ last' = NoResp
  /\ UNCHANGED <<now, ticks, storeUp, regs, vers, held, reg201, ver200, nextEvTok, hits>>

\* An administrator approves a formateur.
Approve(i) ==
  /\ i \in Ids
  /\ users[i].role = "formateur"
  /\ ~users[i].isApproved
  /\ users' = [users EXCEPT ![i].isApproved = TRUE]
  /\ last' = NoResp
  /\ UNCHANGED <<now, ticks, storeUp, regs, vers, held, reg201, ver200, nextEvTok, hits>>

LoginEmails == {"a@x.com", "A@x.com", "b@x.com", "not-an-email"}
LoginPasswords == {"", "secret1", "secret2"}
Schemes == {"", "Basic", "Bearer"}

\* ---------------------------------------------------------- specifications
RegisterStep ==
  \/ \E role \in Roles, p \in CorePayloads : RegisterFind(1, role, p)
  \/ \E r \in BagToSet(regs), keep \in BOOLEAN : RegisterSave(r, keep)

\* Registrations racing each other.
RegisterRace ==
  \/ \E role \in Roles, p \in CorePayloads : RegisterFind(MaxInflight, role, p)
  \/ \E r \in BagToSet(regs), keep \in BOOLEAN : RegisterSave(r, keep)

LoginStep ==
  /\ \/ \E em \in LoginEmails, pw \in LoginPasswords, keep \in BOOLEAN : Login("ip1", em, pw, keep)
     \/ \E em \in LoginEmails, pw \in LoginPasswords, keep \in BOOLEAN : LoginAdmin("ip1", em, pw, keep)
  /\ UNCHANGED hits

\* Login requests, with an observer counting them per address and window.
LoginCounted ==
  \E a \in Addrs :
    /\ \/ \E pw \in {"secret1", "secret2"} : Login(a, "a@x.com", pw, FALSE)
       \/ \E pw \in {"secret1", "secret2"} : LoginAdmin(a, "a@x.com", pw, FALSE)
    /\ hits' = Counted(a)

\* One registration at a time, of any payload.
RegisterAny ==
  \/ \E role \in Roles, p \in AllPayloads : RegisterFind(1, role, p)
  \/ \E r \in BagToSet(regs) : RegisterSave(r, FALSE)

\* One learner registration at a time, the token not kept.
RegisterLearner ==
  \/ \E p \in CorePayloads : RegisterFind(1, "visiteur", p)
  \/ \E r \in BagToSet(regs) : RegisterSave(r, FALSE)

VerifyStep ==
  \/ \E t \in 1..MaxEvTokens : VerifyFind(1, t)
  \/ \E v \in BagToSet(vers) : VerifySave(v)
  \/ \E i \in 1..MaxUsers : IssueVerification(i, loginWindowMin)

GuardedStep ==
  \E g \in Gates, sc \in Schemes, t \in Presentable : Guarded(g, {"admin"}, Header(sc, t))

MeStep == \E sc \in Schemes, t \in Presentable : Me(Header(sc, t))

AdminStep ==
  \/ \E i \in 1..MaxUsers, b \in BOOLEAN : SetActive(i, b)
  \/ \E i \in 1..MaxUsers : Approve(i)

\* One administrator registration at a time, the token not kept.
RegisterAdmin ==
  \/ \E p \in CorePayloads : RegisterFind(1, "admin", p)
  \/ \E r \in BagToSet(regs) : RegisterSave(r, FALSE)

LoginAdminStep ==
  /\ \E em \in {"a@x.com", "b@x.com"}, pw \in {"secret1", "secret2"}, keep \in BOOLEAN :
        LoginAdmin("ip1", em, pw, keep)
  /\ UNCHANGED hits

AuthorizeStep ==
  \E allowed \in SUBSET Roles, t \in Presentable : Guarded("authorize", allowed, Header("Bearer", t))

\* verifyEmailToken requests racing each other.
VerifyRace ==
  \/ \E t \in 1..MaxEvTokens : VerifyFind(MaxInflight, t)
  \/ \E v \in BagToSet(vers) : VerifySave(v)
  \/ \E i \in 1..MaxUsers : IssueVerification(i, loginWindowMin)

ProtectStep ==
  \E sc \in Schemes, t \in Presentable : Guarded("protect", {}, Header(sc, t))

\* Concurrent registrations.
Next == RegisterRace

Spec == Init /\ [][Next]_vars

\* Registration, then GET /me.
NextMe == RegisterStep \/ MeStep \/ Tick(ExpiresIn)

SpecMe == Init /\ [][NextMe]_vars

\* Registration, then requests through the middleware, while administrators
\* deactivate and approve principals and tokens age.
NextGuard == RegisterStep \/ GuardedStep \/ AdminStep \/ Tick(ExpiresIn)

SpecGuard == Init /\ [][NextGuard]_vars

\* Registration, verification windows, sequential verifyEmailToken calls.
NextVerify == RegisterLearner \/ VerifyStep \/ Tick(loginWindowMin)

SpecVerify == Init /\ [][NextVerify]_vars

\* Registration, then counted logins while the limiter's window passes.
NextRate == RegisterLearner \/ LoginCounted \/ Tick(loginWindowMin)

SpecRate == Init /\ [][NextRate]_vars

\* Registrations of well-formed and ill-formed payloads.
NextValidate == RegisterAny

SpecValidate == Init /\ [][NextValidate]_vars

\* Registration, then logins on both endpoints.
NextLogin == RegisterStep \/ LoginStep \/ AdminStep

SpecLogin == Init /\ [][NextLogin]_vars

\* Administrators register, then log in again and again as time passes.
NextRelogin == RegisterAdmin \/ LoginAdminStep \/ Tick(loginWindowMin)

SpecRelogin == Init /\ [][NextRelogin]_vars

\* Registration, then requests through protect and authorize(R), for every R.
NextAuthorize == RegisterStep \/ AuthorizeStep \/ AdminStep

SpecAuthorize == Init /\ [][NextAuthorize]_vars

\* Registration, verification windows, concurrent verifyEmailToken calls.
NextVerifyRace == RegisterLearner \/ VerifyRace \/ Tick(loginWindowMin)

SpecVerifyRace == Init /\ [][NextVerifyRace]_vars

\* Registration, then requests through protect while principals are
\* deactivated, tokens age and the store fails and recovers.
NextFault ==
  \/ RegisterStep
  \/ ProtectStep
  \/ \E i \in 1..MaxUsers, b \in BOOLEAN : SetActive(i, b)
  \/ StoreDown
  \/ StoreBack
  \/ Tick(ExpiresIn)

SpecFault == Init /\ [][NextFault]_vars

\* ------------------------------------------------------------------ claims
RegisterRoutes == {"/register/admin", "/register/formateur", "/register/visiteur"}

\* C1: of the registrations carrying one email, under every interleaving of
\* their findOne and save steps, at most one answers 201 and persists a
\* principal; every other is answered 400 'Email already registered' or 500;
\* the store never holds two principals with one email.
C1_OneWinnerPerEmail ==
  /\ \A e \in StoredEmails : reg201[e] <= 1
  /\ \A e \in StoredEmails : reg201[e] = Cardinality({i \in Ids : users[i].email = e})
  /\ \A i, j \in Ids : i # j => users[i].email # users[j].email
  /\ last.route \in RegisterRoutes =>
       \/ last.status = 201 /\ last.token.form = "jwt"
       \/ last.status = 400 /\ last.msg = "Email already registered" /\ last.token = NoToken
       \/ last.status = 500 /\ last.token = NoToken

\* A registration that passed the pre-check loses the race at save: 500,
\* while the email is stored once, under another role.
C1_Witness ==
  /\ last.route = "/register/visiteur"
  /\ last.status = 500
  /\ reg201[last.reqEmail] = 1
  /\ \E i \in Ids : users[i].email = last.reqEmail /\ users[i].role = "formateur"

\* C2: GET /me bearing the unexpired token a registration returned answers
\* 200 with a profile of the registered role and without the password.
C2_MeAfterRegister ==
  (/\ last.route = "/me"
   /\ held.via \in RegisterRoutes
   /\ last.reqToken = held.tok
   /\ jwtVerify(held.tok, now) = "ok")
  => /\ last.status = 200
     /\ last.role = held.tok.role
     /\ ~last.hasPassword

\* C3: while a principal's isActive is false, a request through protect that
\* bears an unexpired token issued to it is answered 403 and next is not called.
C3_DeactivatedIs403 ==
  (/\ last.route = "guard"
   /\ held.tok.form = "jwt"
   /\ last.reqToken = held.tok
   /\ jwtVerify(held.tok, now) = "ok"
   /\ held.tok.id \in Ids
   /\ ~users[held.tok.id].isActive)
  => /\ last.status = 403
     /\ ~last.next

C3_Witness ==
  /\ last.route = "guard"
  /\ held.tok.form = "jwt"
  /\ last.reqToken = held.tok
  /\ jwtVerify(held.tok, now) = "ok"
  /\ ~users[held.tok.id].isActive
  /\ last.status = 403

\* C4: every token that fails jwt.verify is answered 401 by protect: expired
\* as 'Token expired', every other failure as 'Invalid token'; never 500,
\* never next.
C4_VerifyFailureIs401 ==
  (/\ last.route = "guard"
   /\ last.reqToken.form # "none"
   /\ jwtVerify(last.reqToken, now) # "ok")
  => /\ last.status = 401
     /\ ~last.next
     /\ last.msg = IF jwtVerify(last.reqToken, now) = "TokenExpiredError"
                   THEN "Token expired" ELSE "Invalid token"

\* C5: the unexpired token of a formateur registration, its principal active,
\* passes protect; behind checkFormateurApproval the request is answered 403
\* until isApproved is true and reaches the handler after.
C5_UnapprovedFormateurToken ==
  (/\ last.route = "guard"
   /\ held.via = "/register/formateur"
   /\ last.reqToken = held.tok
   /\ jwtVerify(held.tok, now) = "ok"
   /\ users[held.tok.id].isActive)
  => /\ last.gate = "protect" => last.next /\ last.id = held.tok.id /\ last.status = 0
     /\ last.gate = "checkFormateurApproval" =>
          IF users[held.tok.id].isApproved
          THEN last.next /\ last.status = 0
          ELSE ~last.next /\ last.status = 403

C5_Witness ==
  /\ last.route = "guard"
  /\ held.via = "/register/formateur"
  /\ last.reqToken = held.tok
  /\ users[held.tok.id].isActive
  /\ ~users[held.tok.id].isApproved
  /\ last.gate = "checkFormateurApproval"
  /\ last.status = 403

\* The principal a login request names with the right password, or 0.
Named(email, password) ==
  LET i == FindByEmail(email, Roles)
  IN IF i # 0 /\ comparePassword(users[i], password) THEN i ELSE 0

\* C8: POST /login issues no token for an admin and POST /login/admin none
\* for a formateur or visiteur; a request with that principal's right email
\* and password gets the endpoint's 401.
C8_LoginPartition ==
  LET i == Named(last.reqEmail, last.reqPassword)
  IN /\ last.route = "/login" =>
          /\ last.token.form = "jwt" => users[last.token.id].role # "admin"
          /\ (i # 0 /\ users[i].role = "admin") =>
               last.status = 401 /\ last.msg = "Invalid email or password" /\ last.token = NoToken
     /\ last.route = "/login/admin" =>
          /\ last.token.form = "jwt" => users[last.token.id].role = "admin"
          /\ (i # 0 /\ users[i].role # "admin") =>
               last.status = 401 /\ last.msg = "Invalid admin credentials" /\ last.token = NoToken

C8_Witness ==
  LET i == Named(last.reqEmail, last.reqPassword)
  IN /\ last.route = "/login"
     /\ i # 0
     /\ users[i].role = "admin"
     /\ users[i].isActive
     /\ last.status = 401

\* What POST /login answers a formateur who gave the right password.
C10_Responses ==
  LET i == Named(last.reqEmail, last.reqPassword)
  IN last.route = "/login" =>
       /\ (last.token.form = "jwt" /\ users[last.token.id].role = "formateur") =>
            users[last.token.id].isApproved
       /\ (i # 0 /\ users[i].role = "formateur" /\ users[i].isActive) =>
            IF users[i].isApproved
            THEN last.status = 200 /\ last.token.form = "jwt" /\ last.token.id = i
            ELSE last.status = 403 /\ last.isPending /\ last.token = NoToken

\* C10: POST /login answers an active unapproved formateur with the right
\* password 403, isPending, no token, and leaves the store as it was; with
\* isApproved true the same credentials get 200 and a token.
C10_PendingFormateur ==
  /\ []C10_Responses
  /\ [][last'.route = "/login" => users' = users]_vars

C10_Witness ==
  LET i == Named(last.reqEmail, last.reqPassword)
  IN /\ last.route = "/login"
     /\ i # 0
     /\ users[i].role = "formateur"
     /\ ~users[i].isApproved
     /\ last.status = 403
     /\ last.isPending

\* What verifyEmailToken has answered, and what it left in the store.
C6_Responses ==
  /\ \A t \in 1..MaxEvTokens : ver200[t] <= 1
  /\ \A i \in Ids : (users[i].emailVerificationToken = 0) <=> (users[i].emailVerificationExpires = Undef)
  /\ last.route = "/verify-email" =>
       \/ /\ last.status = 200
          /\ users[last.id].isEmailVerified
          /\ users[last.id].emailVerificationToken = 0
          /\ users[last.id].emailVerificationExpires = Undef
          /\ ver200[last.reqVerify] = 1
       \/ /\ last.status = 400
          /\ last.msg = "invalid or has expired"
          /\ FindByVerification(last.reqVerify) = 0

\* C6: verifyEmailToken with a token matching no stored, unexpired token
\* answers 400 and changes nothing; of two calls in succession with one valid
\* token the first answers 200, sets isEmailVerified and clears token and
\* expiry together, and the second answers the same 400.
C6_VerifyOnce ==
  /\ []C6_Responses
  /\ [][(last'.route = "/verify-email" /\ last'.status = 400) => users' = users]_vars
  /\ [][\A t \in 1..MaxEvTokens :
          (ver200[t] >= 1 /\ last'.route = "/verify-email" /\ last'.reqVerify = t /\ last' # last)
            => last'.status = 400 /\ last'.msg = "invalid or has expired"]_vars

\* The second call with a token that verified once is answered 400.
C6_Witness ==
  /\ last.route = "/verify-email"
  /\ last.status = 400
  /\ ver200[last.reqVerify] = 1
  /\ \E i \in Ids : users[i].isEmailVerified /\ users[i].emailVerificationToken = 0

LoginRoutes == {"/login", "/login/admin"}

\* C7: a login request that is the 6th or later from its address within one
\* 15-minute window is answered 429 and does not reach the handler.
C7_SixthLoginIs429 ==
  (/\ last.route \in LoginRoutes
   /\ loginLimiter(hits[last.reqAddr].n) = 429)
  => last.status = 429

\* The fields of a register request that break a constraint: names of 2 to 50
\* characters, email syntax, phone of 10 to 15 digits, password of at least 6,
\* a formateur's skills non-empty, a visiteur's skillsNeeded a collection.
Violations(route, p) ==
  {f \in {"firstName", "lastName", "email", "phoneNumber", "password", "skills", "skillsNeeded"} :
     \/ f = "firstName" /\ (Trim(p.firstName).core < NameMin \/ Trim(p.firstName).core > NameMax)
     \/ f = "lastName" /\ (Trim(p.lastName).core < NameMin \/ Trim(p.lastName).core > NameMax)
     \/ f = "email" /\ ~isEmail(p.email)
     \/ f = "phoneNumber" /\ ~(p.phoneNumber.digits /\ p.phoneNumber.len \in PhoneMin..PhoneMax)
     \/ f = "password" /\ PwLen(p.password) < PasswordMin
     \/ f = "skills" /\ route = "/register/formateur" /\ p.skills < 1
     \/ f = "skillsNeeded" /\ route = "/register/visiteur" /\ p.skillsNeeded < 0}

\* C9: a register request that breaks a field constraint is answered 400 with
\* the failing fields listed; no principal is persisted and no token issued.
C9_InvalidIs400 ==
  (/\ last.route \in RegisterRoutes
   /\ Violations(last.route, last.reqBody) # {})
  => /\ last.status = 400
     /\ last.errors = Violations(last.route, last.reqBody)
     /\ last.token = NoToken
     /\ last.id = 0

\* Every stored password is one hash of the registered plaintext, and an
\* active administrator presenting that plaintext is let in.
C11_Responses ==
  /\ \A i \in Ids : users[i].password = Hash(Plain("secret1"))
  /\ last.route = "/login/admin" =>
       LET i == FindByEmail(last.reqEmail, {"admin"})
       IN (i # 0 /\ users[i].isActive /\ last.reqPassword = "secret1") =>
            last.status = 200 /\ last.token.form = "jwt"

\* C11: a save that did not modify the password leaves the stored hash as it
\* was: the save of lastLogin by an administrator login changes no password,
\* so after any number of logins the same plaintext still logs in.
C11_HashKeptOnSave ==
  /\ []C11_Responses
  /\ [][(last'.route = "/login/admin" /\ last'.status = 200) =>
          /\ Len(users') = Len(users)
          /\ \A i \in Ids : users'[i].password = users[i].password
          /\ users'[last'.id].lastLogin = now]_vars

\* A login succeeds for an administrator who logged in at an earlier time.
C11_Witness ==
  /\ last.route = "/login/admin"
  /\ last.status = 200
  /\ held.via = "/login/admin"
  /\ held.tok.id = last.id
  /\ held.tok.exp < last.token.exp
  /\ users[last.id].lastLogin = now

\* What authorize(R) did with a request protect had passed.
C12_Outcome ==
  (last.route = "guard" /\ last.gate = "authorize") =>
    LET p == protect(Header("Bearer", last.reqToken))
    IN /\ p.next
       /\ last.id = p.id
       /\ last.role = p.role
       /\ ~last.hasPassword
       /\ last.next <=> users[last.id].role \in last.allowed
       /\ IF last.next
          THEN last.status = 0 /\ last.named = ""
          ELSE last.status = 403 /\ last.named = users[last.id].role

\* C12: authorize(R) calls next exactly when the principal's role is in R and
\* otherwise answers 403 naming that role; either way the principal attached
\* to the request and the store stay as they were.
C12_AuthorizeGate ==
  /\ []C12_Outcome
  /\ [][last'.route = "guard" => users' = users]_vars

C12_Witness ==
  /\ last.route = "guard"
  /\ last.gate = "authorize"
  /\ last.allowed = {"admin", "formateur"}
  /\ users[last.id].role = "visiteur"
  /\ last.status = 403
  /\ last.named = "visiteur"

\* What the client sees of a response: everything but the echo of its request.
Body(r) ==
  [status |-> r.status, msg |-> r.msg, token |-> r.token, role |-> r.role, id |-> r.id,
   isPending |-> r.isPending, errors |-> r.errors]

\* An address that passes isEmail and that no store can hold.
UnknownEmail == "a+b@x.com"

\* What the endpoint answers a request naming an email it does not know.
UnknownBody(route, password) ==
  IF route = "/login" THEN Body(LoginResponse(UnknownEmail, password))
  ELSE Body(LoginAdminResponse(UnknownEmail, password))

\* The principal the endpoint finds for the email, or 0.
KnownTo(route, email) ==
  IF route = "/login" THEN FindByEmail(email, LoginRoles) ELSE FindByEmail(email, {"admin"})

\* C13 as claimed: on both login endpoints a known email with a wrong
\* password is answered exactly as an unknown email is, with 401, whatever
\* the active and approval flags of the account.
C13_UniformWhateverState ==
  (/\ last.route \in LoginRoutes
   /\ KnownTo(last.route, last.reqEmail) # 0
   /\ last.reqPassword # ""
   /\ ~comparePassword(users[KnownTo(last.route, last.reqEmail)], last.reqPassword))
  => /\ last.status = 401
     /\ Body(last) = UnknownBody(last.route, last.reqPassword)

\* C13 as amended: on both login endpoints a known email of an active account
\* with a wrong password is answered exactly as an unknown email is, with
\* 401, whatever the approval flag; a deactivated account is answered 403
\* whether the password is right or wrong.
C13_UniformWhenActive ==
  (/\ last.route \in LoginRoutes
   /\ KnownTo(last.route, last.reqEmail) # 0
   /\ last.reqPassword # "")
  => LET u == users[KnownTo(last.route, last.reqEmail)]
     IN /\ (u.isActive /\ ~comparePassword(u, last.reqPassword)) =>
             /\ last.status = 401
             /\ Body(last) = UnknownBody(last.route, last.reqPassword)
        /\ ~u.isActive => last.status = 403 /\ last.token = NoToken

\* A wrong password for an active, unapproved formateur gets the 401.
C13_Witness ==
  /\ last.route = "/login"
  /\ KnownTo("/login", last.reqEmail) # 0
  /\ users[KnownTo("/login", last.reqEmail)].role = "formateur"
  /\ users[KnownTo("/login", last.reqEmail)].isActive
  /\ ~users[KnownTo("/login", last.reqEmail)].isApproved
  /\ last.reqPassword = "secret2"
  /\ last.status = 401

\* C14: of the verifyEmailToken requests carrying one valid token, under
\* every interleaving of their findOne and save steps, at most one answers
\* 200 and every other answers 400.
C14_SingleUse ==
  /\ \A t \in 1..MaxEvTokens : ver200[t] <= 1
  /\ last.route = "/verify-email" => last.status \in {200, 400}

\* Whether protect is to let the request through: a Bearer token that
\* verifies and names a stored, active principal, the store answering.
Admissible(tok) ==
  /\ tok.form # "none"
  /\ jwtVerify(tok, now) = "ok"
  /\ storeUp
  /\ tok.id \in Ids
  /\ users[tok.id].isActive

\* C15: protect calls next, with the stored principal attached and its
\* password excluded, exactly when a Bearer token is present, verifies and
\* names an existing, active principal; otherwise it sends one error
\* response (500 when the store fails) and does not call next.
C15_OneOutcome ==
  (last.route = "guard" /\ last.gate = "protect") =>
    /\ last.next <=> Admissible(last.reqToken)
    /\ last.next <=> last.status = 0
    /\ last.next =>
         /\ last.id = last.reqToken.id
         /\ last.role = users[last.id].role
         /\ ~last.hasPassword
    /\ ~last.next => last.status \in {401, 403, 500}
    /\ (jwtVerify(last.reqToken, now) = "ok" /\ ~storeUp) => last.status = 500

\* A valid token of an active principal is answered 500 while the store is down.
C15_Witness ==
  /\ last.route = "guard"
  /\ ~storeUp
  /\ held.tok.form = "jwt"
  /\ last.reqToken = held.tok
  /\ jwtVerify(held.tok, now) = "ok"
  /\ users[held.tok.id].isActive
  /\ last.status = 500
  /\ ~last.next
====
